---------------------------- MODULE Spec2Model ----------------------------
(***************************************************************************)
(* Model of scraptotmp (src/main.py): one invocation of main() picks a URL *)
(* from a candidate list, fetches it with urllib and writes the decoded    *)
(* body to a timestamped file.                                             *)
(*                                                                         *)
(* Python strings are modelled as sequences of one-character strings,      *)
(* byte strings as sequences of integers 0..255, decoded text as sequences *)
(* of Unicode code points.                                                 *)
(***************************************************************************)
EXTENDS Integers, Sequences, FiniteSets, TLC

(***************************************************************************)
(* Bounds of the model.                                                    *)
(***************************************************************************)
\* longest candidate list given with --urls
MaxUrls == 2
\* longest response body, in bytes
MaxBodyLen == 2
\* --seed ranges over -MaxSeed..MaxSeed (or is absent)
MaxSeed == 1
\* the wall clock is observed at ticks 0..MaxTick
MaxTick == 3
\* number of invocations of main() taken in sequence
MaxRuns == 2
\* longest URL of the exhaustive filename check
MaxUrlLen == 3

\* resolution of the modelled wall clock: ticks per second
TicksPerSecond == 2

None == "None"

(***************************************************************************)
(* Strings.                                                                *)
(***************************************************************************)
DEFAULT_URLS ==
    << <<"h","t","t","p","s",":","/","/","e","x","a","m","p","l","e",".","c","o","m">>,
       <<"h","t","t","p","s",":","/","/","h","t","t","p","b","i","n",".","o","r","g","/","h","t","m","l">>,
       <<"h","t","t","p","s",":","/","/","w","w","w",".","i","a","n","a",".","o","r","g","/","d","o","m","a","i","n","s","/","e","x","a","m","p","l","e">>,
       <<"h","t","t","p","s",":","/","/","w","w","w",".","p","y","t","h","o","n",".","o","r","g">> >>

DefaultOutputDir == "/tmp"

\* str.startswith at offset i (1-based)
MatchAt(s, i, old) ==
    /\ i + Len(old) - 1 <= Len(s)
    /\ SubSeq(s, i, i + Len(old) - 1) = old

\* str.replace(old, new) for a non-empty old: every non-overlapping
\* occurrence, scanning from the left
RECURSIVE ReplaceFrom(_, _, _, _)
ReplaceFrom(s, i, old, new) ==
    IF i > Len(s) THEN << >>
    ELSE IF MatchAt(s, i, old)
         THEN new \o ReplaceFrom(s, i + Len(old), old, new)
         ELSE << s[i] >> \o ReplaceFrom(s, i + 1, old, new)

Replace(s, old, new) == ReplaceFrom(s, 1, old, new)

\* a safe name that keeps the slashes after the scheme separator
SafeName_SchemeOnly(url) == Replace(url, <<":", "/", "/">>, <<"_">>)

\* safe_name = url.replace("://", "_").replace("/", "_")
SafeName(url) == Replace(Replace(url, <<":", "/", "/">>, <<"_">>), <<"/">>, <<"_">>)

(***************************************************************************)
(* The timestamp: datetime.now() truncated to the second and formatted     *)
(* with %Y%m%d-%H%M%S.  The clock runs on one local day, EpochDate.        *)
(***************************************************************************)
Digits == <<"0","1","2","3","4","5","6","7","8","9">>

Pad2(n) == << Digits[((n \div 10) % 10) + 1], Digits[(n % 10) + 1] >>

EpochDate == <<"2","0","2","6","1","1","0","2">>

SecondOf(tick) == tick \div TicksPerSecond

Strftime(tick) ==
    EpochDate \o <<"-">>
        \o Pad2((SecondOf(tick) \div 3600) % 24)
        \o Pad2((SecondOf(tick) \div 60) % 60)
        \o Pad2(SecondOf(tick) % 60)

\* a filename without the timestamp
Filename_NoTimestamp(timestamp, safe_name) ==
    <<"s","c","r","a","p","e","_">> \o safe_name \o <<".","h","t","m","l">>

\* filename = f"scrape_{timestamp}_{safe_name}.html"
Filename(timestamp, safe_name) ==
    <<"s","c","r","a","p","e","_">> \o timestamp \o <<"_">> \o safe_name
        \o <<".","h","t","m","l">>

\* output_dir / filename: a path is the directory and the remaining text;
\* a "/" inside the text would name a subdirectory
JoinPath(dir, filename) == [dir |-> dir, name |-> filename]

(***************************************************************************)
(* Codecs.  bytes.decode(encoding, errors="replace") and                   *)
(* str.encode("utf-8") as CPython computes them.                           *)
(***************************************************************************)
ReplacementChar == 65533   \* U+FFFD

IsCont(b) == b >= 128 /\ b <= 191

\* number of continuation bytes the lead byte b announces (0: not a lead)
Utf8Need(b) ==
    IF b >= 194 /\ b <= 223 THEN 1
    ELSE IF b >= 224 /\ b <= 239 THEN 2
    ELSE IF b >= 240 /\ b <= 244 THEN 3
    ELSE 0

\* the second byte of a sequence is restricted after E0, ED, F0 and F4
Utf8SecondOk(lead, b) ==
    IF lead = 224 THEN b >= 160 /\ b <= 191
    ELSE IF lead = 237 THEN b >= 128 /\ b <= 159
    ELSE IF lead = 240 THEN b >= 144 /\ b <= 191
    ELSE IF lead = 244 THEN b >= 128 /\ b <= 143
    ELSE IsCont(b)

\* how many of the `need` bytes after position i continue the sequence
RECURSIVE Utf8Valid(_, _, _, _)
Utf8Valid(body, i, k, need) ==
    IF k > need \/ i + k > Len(body) THEN k - 1
    ELSE IF (IF k = 1 THEN Utf8SecondOk(body[i], body[i + k]) ELSE IsCont(body[i + k]))
         THEN Utf8Valid(body, i, k + 1, need)
         ELSE k - 1

Utf8CodePoint(body, i, need) ==
    IF need = 1 THEN (body[i] - 192) * 64 + (body[i + 1] - 128)
    ELSE IF need = 2
         THEN (body[i] - 224) * 4096 + (body[i + 1] - 128) * 64 + (body[i + 2] - 128)
         ELSE (body[i] - 240) * 262144 + (body[i + 1] - 128) * 4096
                  + (body[i + 2] - 128) * 64 + (body[i + 3] - 128)

RECURSIVE Utf8DecodeFrom(_, _)
Utf8DecodeFrom(body, i) ==
    IF i > Len(body) THEN << >>
    ELSE IF body[i] < 128 THEN << body[i] >> \o Utf8DecodeFrom(body, i + 1)
    ELSE IF Utf8Need(body[i]) = 0
         THEN << ReplacementChar >> \o Utf8DecodeFrom(body, i + 1)
    ELSE LET need == Utf8Need(body[i])
             got  == Utf8Valid(body, i, 1, need)
         IN  IF got = need
             THEN << Utf8CodePoint(body, i, need) >> \o Utf8DecodeFrom(body, i + need + 1)
             ELSE << ReplacementChar >> \o Utf8DecodeFrom(body, i + got + 1)

\* body.decode("utf-8", errors="replace")
Utf8Decode(body) == Utf8DecodeFrom(body, 1)

\* body.decode("iso-8859-1", errors="replace"): every byte is a code point
Latin1Decode(body) == body

IsSurrogate(cp) == cp >= 55296 /\ cp <= 57343

\* an encoder that writes code points below 256 as one byte
Utf8EncodeChar_OneByte(cp) ==
    IF cp < 256 THEN << cp >>
    ELSE IF cp < 2048 THEN << 192 + (cp \div 64), 128 + (cp % 64) >>
    ELSE << 224 + (cp \div 4096), 128 + ((cp \div 64) % 64), 128 + (cp % 64) >>

Utf8EncodeChar(cp) ==
    IF cp < 128 THEN << cp >>
    ELSE IF cp < 2048 THEN << 192 + (cp \div 64), 128 + (cp % 64) >>
    ELSE IF cp < 65536
         THEN << 224 + (cp \div 4096), 128 + ((cp \div 64) % 64), 128 + (cp % 64) >>
         ELSE << 240 + (cp \div 262144), 128 + ((cp \div 4096) % 64),
                 128 + ((cp \div 64) % 64), 128 + (cp % 64) >>

RECURSIVE Utf8EncodeFrom(_, _)
Utf8EncodeFrom(text, i) ==
    IF i > Len(text) THEN << >>
    ELSE Utf8EncodeChar(text[i]) \o Utf8EncodeFrom(text, i + 1)

\* contents.encode("utf-8"), defined when no code point is a surrogate
Utf8Encode(text) == Utf8EncodeFrom(text, 1)

Utf8Encodable(text) == \A i \in 1..Len(text) : ~IsSurrogate(text[i])

\* the codecs the interpreter's registry knows, by normalised name
KnownCodecs == {"utf-8", "iso-8859-1"}

\* detect_encoding: the declared charset when there is one, else utf-8
\* (NoCharset: get_content_charset() returned None)
NoCharset == ""

detect_encoding(charset) == IF charset # NoCharset THEN charset ELSE "utf-8"

\* body.decode(encoding, errors="replace"): the text, or the exception the
\* codec lookup raises
Decode(body, encoding) ==
    IF encoding \notin KnownCodecs THEN [exc |-> "LookupError", text |-> << >>]
    ELSE IF encoding = "utf-8" THEN [exc |-> None, text |-> Utf8Decode(body)]
    ELSE [exc |-> None, text |-> Latin1Decode(body)]

(***************************************************************************)
(* Exceptions: the class hierarchy that decides what main's except clause  *)
(* catches.                                                                *)
(***************************************************************************)
ExcParent ==
    [ c \in {"ValueError", "UnicodeEncodeError", "LookupError", "IndexError",
             "OSError", "URLError", "HTTPError", "TimeoutError",
             "PermissionError", "ConnectionResetError", "IncompleteRead",
             "Exception"} |->
        CASE c = "UnicodeEncodeError"   -> "ValueError"
          [] c = "IndexError"           -> "LookupError"
          [] c = "URLError"             -> "OSError"
          [] c = "HTTPError"            -> "URLError"
          [] c = "TimeoutError"         -> "OSError"
          [] c = "PermissionError"      -> "OSError"
          [] c = "ConnectionResetError" -> "OSError"
          [] OTHER                      -> "Exception" ]

RECURSIVE IsInstance(_, _)
IsInstance(cls, base) ==
    \/ cls = base
    \/ cls # "Exception" /\ IsInstance(ExcParent[cls], base)

\* except (ValueError, urllib.error.URLError, TimeoutError)
HandledClasses == {"ValueError", "URLError", "TimeoutError"}

Handled(cls) == \E base \in HandledClasses : IsInstance(cls, base)

(***************************************************************************)
(* random.Random(seed).choice(population).  The generator is a stand-in    *)
(* for the Mersenne Twister with words of RngWordBits bits: a full-period  *)
(* congruential step.  Seeding, getrandbits, _randbelow and choice are     *)
(* CPython's.                                                              *)
(***************************************************************************)
RngWordBits == 3

RngStates == 0..(2^RngWordBits - 1)

Abs(n) == IF n < 0 THEN -n ELSE n

\* Optional[int]: << >> is None, << n >> is the integer n
NoSeed == << >>

\* a generator that is never seeded from the argument
RandomInit_Unseeded(seed, entropy) == entropy

\* Random(seed): an int seed is used by absolute value; without a seed the
\* state comes from the system's entropy
RandomInit(seed, entropy) ==
    IF seed = NoSeed THEN entropy ELSE Abs(seed[1]) % (2^RngWordBits)

\* one step of the generator; the new state is the word it outputs
Genrand(state) == (5 * state + 3) % (2^RngWordBits)

\* int.bit_length
RECURSIVE BitLength(_)
BitLength(n) == IF n = 0 THEN 0 ELSE 1 + BitLength(n \div 2)

\* getrandbits(k): the k high bits of the next word
GetRandBits(state, k) == Genrand(state) \div (2^(RngWordBits - k))

\* _randbelow(n): draw BitLength(n) bits until the draw is below n
RECURSIVE RandBelow(_, _)
RandBelow(state, n) ==
    LET r == GetRandBits(state, BitLength(n))
    IN  IF r < n THEN r ELSE RandBelow(Genrand(state), n)

\* rng.choice(population), population non-empty
Choice(state, population) == population[RandBelow(state, Len(population)) + 1]

\* pick_url without its emptiness check: choice() raises IndexError
pick_url_Unchecked(urls, seed, entropy) ==
    IF urls = << >>
    THEN [exc |-> "IndexError", msg |-> "Cannot choose from an empty sequence",
          url |-> << >>]
    ELSE [exc |-> None, msg |-> "", url |-> Choice(RandomInit(seed, entropy), urls)]

\* pick_url: the exception it raises, or the URL it returns
pick_url(urls, seed, entropy) ==
    IF urls = << >>
    THEN [exc |-> "ValueError", msg |-> "URL list is empty", url |-> << >>]
    ELSE [exc |-> None, msg |-> "", url |-> Choice(RandomInit(seed, entropy), urls)]

(***************************************************************************)
(* urllib.request: what Request(url) and urlopen make of the URL before    *)
(* any packet is sent, and what they make of the response's status.        *)
(***************************************************************************)
\* position of the first ":" or "/" of s at or after i (Len(s)+1: none)
RECURSIVE FirstDelim(_, _)
FirstDelim(s, i) ==
    IF i > Len(s) \/ s[i] \in {":", "/"} THEN i ELSE FirstDelim(s, i + 1)

\* Request(url) raises ValueError("unknown url type") without a scheme
HasScheme(url) ==
    LET i == FirstDelim(url, 1) IN i > 1 /\ i <= Len(url) /\ url[i] = ":"

Scheme(url) == SubSeq(url, 1, FirstDelim(url, 1) - 1)

NetworkSchemes == { <<"h","t","t","p">>, <<"h","t","t","p","s">> }

\* the http handlers need "//" and a non-empty host after the scheme
HasHost(url) ==
    LET i == FirstDelim(url, 1)
    IN  /\ MatchAt(url, i, <<":", "/", "/">>)
        /\ i + 3 <= Len(url)
        /\ url[i + 3] # "/"

\* an error processor that raises for server errors only
RaisesHTTPError_ServerOnly(status) == status >= 500

\* HTTPErrorProcessor: a final status outside 200..299 goes to the error
\* handlers, whose default raises HTTPError
RaisesHTTPError(status) == ~(200 <= status /\ status < 300)

(***************************************************************************)
(* The state.                                                              *)
(***************************************************************************)
VARIABLES
    run,      \* number of invocations of main() started so far
    pc,       \* where the current invocation is
    args,     \* the parsed arguments: urls, seed, output_dir
    url,      \* main's url
    resp,     \* the response urlopen returned: status, charset, body read
    html,     \* main's html
    path,     \* main's path
    exc,      \* the exception raised in the try block: class and message
    cause,    \* what happened in the environment to raise it
    stdout,   \* lines printed to standard output
    stderr,   \* lines printed to standard error by main
    ret,      \* main's return value, RetNone while it has not returned
    calls,    \* calls made by this invocation: pick, request, write
    fs,       \* the files of the filesystem: path -> bytes
    dirs,     \* the directories that exist
    clock,    \* the wall clock when it was last observed, in ticks
    fs0,      \* the files when this invocation started
    picks,    \* every pick_url call that returned: run, urls, seed, url
    written   \* for each file, the write_text call that last opened it

vars == << run, pc, args, url, resp, html, path, exc, cause, stdout, stderr,
           ret, calls, fs, dirs, clock, fs0, picks, written >>

Terminal == {"Done", "Failed", "Crashed"}

NoArgs  == [urls |-> << >>, seed |-> NoSeed, output_dir |-> ""]
NoResp  == [status |-> 0, charset |-> NoCharset, body |-> << >>]
NoPath  == [dir |-> "", name |-> << >>]
NoExc   == [cls |-> None, msg |-> ""]
NoCalls == [pick |-> 0, request |-> 0, write |-> 0]
RetNone == -1

Init ==
    /\ run = 0
    /\ pc = "Idle"
    /\ args = NoArgs
    /\ url = << >>
    /\ resp = NoResp
    /\ html = << >>
    /\ path = NoPath
    /\ exc = NoExc
    /\ cause = None
    /\ stdout = << >>
    /\ stderr = << >>
    /\ ret = RetNone
    /\ calls = NoCalls
    /\ fs = << >>
    /\ dirs = {DefaultOutputDir}
    /\ clock = 0
    /\ fs0 = << >>
    /\ picks = {}
    /\ written = << >>

\* args = parse_args(argv), at the start of an invocation of main
Start(ArgSet, limit) ==
    /\ run < limit
    /\ pc \in {"Idle"} \cup Terminal
    /\ run' = run + 1
    /\ pc' = "Selecting"
    /\ args' \in ArgSet
    /\ url' = << >>
    /\ resp' = NoResp
    /\ html' = << >>
    /\ path' = NoPath
    /\ exc' = NoExc
    /\ cause' = None
    /\ stdout' = << >>
    /\ stderr' = << >>
    /\ ret' = RetNone
    /\ calls' = NoCalls
    /\ fs0' = fs
    /\ UNCHANGED << fs, dirs, clock, picks, written >>

\* a handler that falls back to another selection when the fetch fails
Raise_Fallback(cls, msg, why) ==
    /\ exc' = [cls |-> cls, msg |-> msg]
    /\ cause' = why
    /\ IF pc = "Fetching" /\ Handled(cls)
       THEN /\ pc' = "Selecting"
            /\ UNCHANGED << stderr, ret >>
       ELSE IF Handled(cls)
       THEN /\ pc' = "Failed"
            /\ stderr' = Append(stderr, <<"Scrape failed: ", msg>>)
            /\ ret' = 1
       ELSE /\ pc' = "Crashed"
            /\ UNCHANGED << stderr, ret >>

\* an exception of class cls leaves the try block: the except clause
\* prints and returns 1, or the exception propagates out of main
Raise(cls, msg, why) ==
    /\ exc' = [cls |-> cls, msg |-> msg]
    /\ cause' = why
    /\ IF Handled(cls)
       THEN /\ pc' = "Failed"
            /\ stderr' = Append(stderr, <<"Scrape failed: ", msg>>)
            /\ ret' = 1
       ELSE /\ pc' = "Crashed"
            /\ UNCHANGED << stderr, ret >>

\* url = pick_url(args.urls, seed=args.seed)
PickUrl ==
    /\ pc = "Selecting"
    /\ calls' = [calls EXCEPT !.pick = @ + 1]
    /\ \E entropy \in RngStates :
         LET r == pick_url(args.urls, args.seed, entropy)
         IN  IF r.exc # None
             THEN /\ Raise(r.exc, r.msg, "empty_list")
                  /\ UNCHANGED << url, picks >>
             ELSE /\ url' = r.url
                  /\ picks' = picks \cup
                        {[run |-> run, urls |-> args.urls, seed |-> args.seed,
                          url |-> r.url]}
                  /\ pc' = "Fetching"
                  /\ UNCHANGED << exc, cause, stderr, ret >>
    /\ UNCHANGED << run, args, resp, html, path, stdout, fs, dirs, clock, fs0, written >>

(***************************************************************************)
(* The inputs the environment supplies.                                    *)
(***************************************************************************)
\* all sequences over S of length at most n
RECURSIVE SeqsUpTo(_, _)
SeqsUpTo(S, n) ==
    IF n = 0 THEN {<< >>}
    ELSE LET shorter == SeqsUpTo(S, n - 1)
         IN  shorter \cup {Append(q, x) : q \in shorter, x \in S}

\* final status codes of a response (redirects already followed)
Statuses == {200, 204, 404, 500}

\* what get_content_charset() can return
Charsets == {NoCharset, "utf-8", "iso-8859-1", "x-unknown"}

\* "A", the two bytes of U+00E9 in UTF-8, and a byte no UTF-8 text holds
ByteAlphabet == {65, 195, 169, 255}

Bodies == SeqsUpTo(ByteAlphabet, MaxBodyLen)

\* every response: status, declared charset and body
AllResponses == [statuses |-> Statuses, charsets |-> Charsets, bodies |-> Bodies]

\* a 200 without a declared charset, and a 404
FewResponses ==
    [statuses |-> {200, 404}, charsets |-> {NoCharset}, bodies |-> {<< >>, <<65>>}]

\* URLs: two with the same safe name, one with another, one without a
\* scheme, and the URL of the documented example
UrlA == <<"h","t","t","p",":","/","/","a","/","b">>
UrlB == <<"h","t","t","p",":","/","/","a","_","b">>
UrlC == <<"h","t","t","p",":","/","/","c">>
NoSchemeUrl == <<"a","/","b">>
ExampleUrl == <<"h","t","t","p","s",":","/","/","a",".","c","o","m","/","b","/","c">>

Seeds == {NoSeed} \cup {<<n>> : n \in -MaxSeed..MaxSeed}

\* --urls absent (the default list), or given with up to MaxUrls values
UrlLists == {DEFAULT_URLS} \cup SeqsUpTo({UrlA, NoSchemeUrl}, MaxUrls)

MainArgs == [urls : UrlLists, seed : Seeds, output_dir : {DefaultOutputDir}]

RunsArgs ==
    [urls : {<<UrlA>>, <<UrlB>>, <<UrlC>>}, seed : {NoSeed},
     output_dir : {DefaultOutputDir}]

PicksArgs ==
    [urls : {<< >>, <<UrlA, UrlB>>, <<UrlB, UrlA>>}, seed : Seeds,
     output_dir : {DefaultOutputDir}]

UrlAlphabet == {"a", ":", "/", "_"}

AllUrls ==
    {ExampleUrl} \cup
    {<<"h","t","t","p",":","/","/","a">> \o tail : tail \in SeqsUpTo(UrlAlphabet, MaxUrlLen)}

UrlsArgs ==
    [urls : {<<u>> : u \in AllUrls}, seed : {NoSeed},
     output_dir : {DefaultOutputDir, "/tmp/out"}]

\* the response body is read and decoded:
\*   encoding = detect_encoding(resp); body = resp.read()
\*   return body.decode(encoding, errors="replace")
ReadAndDecode(status, charset, bodies) ==
    \/ \E body \in bodies :
         LET d == Decode(body, detect_encoding(charset))
         IN  /\ resp' = [status |-> status, charset |-> charset, body |-> body]
             /\ IF d.exc # None
                THEN /\ Raise(d.exc, "unknown encoding", "unknown_charset")
                     /\ html' = html
                ELSE /\ html' = d.text
                     /\ pc' = "Persisting"
                     /\ UNCHANGED << exc, cause, stderr, ret >>
    \/ /\ resp' = [status |-> status, charset |-> charset, body |-> << >>]
       /\ html' = html
       /\ \/ Raise("TimeoutError", "The read operation timed out", "read_timeout")
          \/ Raise("ConnectionResetError", "Connection reset by peer", "connection_reset")
          \/ Raise("IncompleteRead", "IncompleteRead", "incomplete_read")

\* html = fetch_html(url, timeout=args.timeout).  A request is one urlopen
\* call on a URL that names a host; whether and where the time bound runs
\* out is the environment's choice, and net holds the responses it may
\* deliver (the final one, when urlopen followed redirects).
FetchHtml(net) ==
    /\ pc = "Fetching"
    /\ \/ /\ ~HasScheme(url)
          /\ Raise("ValueError", "unknown url type", "bad_url")
          /\ UNCHANGED << calls, resp, html >>
       \/ /\ HasScheme(url)
          /\ Scheme(url) \notin NetworkSchemes
          /\ Raise("URLError", "<urlopen error unknown url type>", "bad_url")
          /\ UNCHANGED << calls, resp, html >>
       \/ /\ HasScheme(url)
          /\ Scheme(url) \in NetworkSchemes
          /\ ~HasHost(url)
          /\ Raise("URLError", "<urlopen error no host given>", "bad_url")
          /\ UNCHANGED << calls, resp, html >>
       \/ /\ HasScheme(url)
          /\ Scheme(url) \in NetworkSchemes
          /\ HasHost(url)
          /\ calls' = [calls EXCEPT !.request = @ + 1]
          /\ \/ /\ Raise("URLError", "<urlopen error connection failed>", "connect_failed")
                /\ UNCHANGED << resp, html >>
             \/ /\ Raise("URLError", "<urlopen error timed out>", "connect_timeout")
                /\ UNCHANGED << resp, html >>
             \/ /\ Raise("TimeoutError", "timed out", "response_timeout")
                /\ UNCHANGED << resp, html >>
             \/ \E status \in net.statuses, charset \in net.charsets :
                  IF RaisesHTTPError(status)
                  THEN /\ Raise("HTTPError", "HTTP Error", "http_status")
                       /\ resp' = [status |-> status, charset |-> charset, body |-> << >>]
                       /\ html' = html
                  ELSE ReadAndDecode(status, charset, net.bodies)
    /\ UNCHANGED << run, args, url, path, stdout, fs, dirs, clock, fs0, picks, written >>

\* the file at path p holds data
WriteFile(files, p, data) ==
    [q \in DOMAIN files \cup {p} |-> IF q = p THEN data ELSE files[q]]

\* path = write_html(html, args.output_dir, url=url), then the two prints
\* (write_text opens the file, truncating it, before it encodes and writes;
\* text decoded by the codecs of KnownCodecs holds no surrogate)
\* and return 0; the clock is read at a tick up to lastTick
WriteHtml(lastTick) ==
    /\ pc = "Persisting"
    /\ calls' = [calls EXCEPT !.write = @ + 1]
    /\ \E now \in clock..lastTick :
         LET timestamp == Strftime(now)
             safe_name == SafeName(url)
             filename  == Filename(timestamp, safe_name)
             filepath  == JoinPath(args.output_dir, filename)
             opened(data) ==
                 /\ dirs' = dirs \cup {args.output_dir}
                 /\ fs' = WriteFile(fs, filepath, data)
                 /\ written' = WriteFile(written, filepath,
                        [run |-> run, tick |-> now, url |-> url])
         IN  /\ clock' = now
             /\ \/ /\ Raise("PermissionError", "Permission denied", "mkdir_failed")
                   /\ UNCHANGED << dirs, fs, written, path, stdout >>
                \/ /\ Raise("PermissionError", "Permission denied", "open_failed")
                   /\ dirs' = dirs \cup {args.output_dir}
                   /\ UNCHANGED << fs, written, path, stdout >>
                \/ /\ ~Utf8Encodable(html)
                   /\ opened(<< >>)
                   /\ Raise("UnicodeEncodeError", "surrogates not allowed", "encode_failed")
                   /\ UNCHANGED << path, stdout >>
                \/ /\ Utf8Encodable(html)
                   /\ opened(<< >>)
                   /\ Raise("OSError", "No space left on device", "write_failed")
                   /\ UNCHANGED << path, stdout >>
                \/ /\ Utf8Encodable(html)
                   /\ opened(Utf8Encode(html))
                   /\ path' = filepath
                   /\ stdout' = << <<"Scraped ", url>>, <<"HTML saved to ", filepath>> >>
                   /\ ret' = 0
                   /\ pc' = "Done"
                   /\ UNCHANGED << exc, cause, stderr >>
    /\ UNCHANGED << run, args, url, resp, html, fs0, picks >>

(***************************************************************************)
(* Specifications.                                                         *)
(*   Spec      one invocation, with every argument list and response       *)
(*   SpecRuns  MaxRuns invocations in sequence writing into one directory  *)
(*   SpecPicks MaxRuns invocations in sequence, with every seed            *)
(*   SpecUrls  one invocation on each URL of AllUrls                       *)
(***************************************************************************)
Next ==
    \/ Start(MainArgs, 1)
    \/ PickUrl
    \/ FetchHtml(AllResponses)
    \/ WriteHtml(1)

Spec == Init /\ [][Next]_vars

NextRuns ==
    \/ Start(RunsArgs, MaxRuns)
    \/ PickUrl
    \/ FetchHtml(FewResponses)
    \/ WriteHtml(MaxTick)

SpecRuns == Init /\ [][NextRuns]_vars

NextPicks ==
    \/ Start(PicksArgs, MaxRuns)
    \/ PickUrl
    \/ FetchHtml(FewResponses)
    \/ WriteHtml(0)

SpecPicks == Init /\ [][NextPicks]_vars

NextUrls ==
    \/ Start(UrlsArgs, 1)
    \/ PickUrl
    \/ FetchHtml(FewResponses)
    \/ WriteHtml(MaxTick)

SpecUrls == Init /\ [][NextUrls]_vars

(***************************************************************************)
(* Properties.                                                             *)
(***************************************************************************)
Range(q) == {q[i] : i \in 1..Len(q)}

Is2xx(status) == status \in 200..299

\* the error kind of the documented taxonomy that an event belongs to
Kind(why) ==
    CASE why = "empty_list" -> "InvalidInput"
      [] why \in {"connect_timeout", "response_timeout", "read_timeout"} -> "Timeout"
      [] why \in {"connect_failed", "connection_reset", "incomplete_read"} -> "NetworkError"
      [] why \in {"mkdir_failed", "open_failed", "write_failed"} -> "IOError"
      [] OTHER -> "Other"

DeclaredKinds == {"InvalidInput", "Timeout", "NetworkError", "IOError"}

Diagnostic == << <<"Scrape failed: ", exc.msg>> >>

\* the files this invocation created or changed
Touched == {p \in DOMAIN fs : p \notin DOMAIN fs0 \/ fs[p] # fs0[p]}

\* C1: a failure of any of the four declared kinds (InvalidInput, Timeout,
\* NetworkError, IOError) raised in the try block is caught by main: one
\* "Scrape failed: ..." line on standard error and return value 1; it never
\* propagates out of main.
C1_DeclaredKindsCaught ==
    (exc.cls # None /\ Kind(cause) \in DeclaredKinds)
        => (pc = "Failed" /\ ret = 1 /\ stderr = Diagnostic)

\* C2 as stated: whatever the status of the delivered response (2xx, 4xx,
\* 5xx), fetch_html returns the decoded body and the pipeline goes on to
\* persist it; the status never makes the fetch fail.
C2_AnyStatusReturnsBody ==
    (resp.status # 0 /\ ~Is2xx(resp.status) /\ pc # "Fetching")
        => (cause # "http_status" /\ (pc \in {"Persisting", "Done"} \/ Kind(cause) = "IOError"))

\* C2 amended: a delivered response with a status outside 2xx makes the
\* fetch fail with HTTPError, which main reports with "Scrape failed" and
\* return value 1, no body decoded and no file written; a 2xx status never
\* makes the fetch fail, and the text handed to the persist step is the body
\* decoded with the declared (or default) encoding.
C2_OnlyNon2xxFails ==
    /\ (resp.status # 0 /\ ~Is2xx(resp.status) /\ pc # "Fetching")
          => /\ pc = "Failed"
             /\ exc.cls = "HTTPError"
             /\ cause = "http_status"
             /\ ret = 1
             /\ stderr = Diagnostic
             /\ html = << >>
             /\ calls.write = 0
             /\ Touched = {}
    /\ (resp.status # 0 /\ Is2xx(resp.status))
          => /\ cause # "http_status"
             /\ exc.cls # "HTTPError"
             /\ pc \in {"Persisting", "Done"}
                    => html = Decode(resp.body, detect_encoding(resp.charset)).text

C2_Witness ==
    /\ pc = "Failed"
    /\ resp.status = 404
    /\ exc.cls = "HTTPError"
    /\ ret = 1

\* the network portion of the fetch succeeded: a request was answered with
\* a response that urlopen returned, and its body was read
NetworkPartSucceeded ==
    /\ pc \notin {"Idle", "Selecting", "Fetching"}
    /\ calls.request = 1
    /\ Is2xx(resp.status)
    /\ cause \notin {"read_timeout", "connection_reset", "incomplete_read"}

\* C3: whenever the network portion of fetch_html succeeds, fetch_html
\* returns a string, for every body and every declared charset (or none):
\* the decoding step never raises.
C3_DecodeNeverRaises ==
    NetworkPartSucceeded
        => /\ cause # "unknown_charset"
           /\ pc \in {"Persisting", "Done"} \/ Kind(cause) = "IOError"

\* C4: a fetch whose time bound is exceeded, in the connect phase or while
\* reading, fails with the Timeout kind (TimeoutError) and never with the
\* NetworkError kind (URLError).
C4_TimeoutIsTimeoutError ==
    Kind(cause) = "Timeout"
        => (IsInstance(exc.cls, "TimeoutError") /\ ~IsInstance(exc.cls, "URLError"))

\* C5: with an empty candidate list pick_url fails with ValueError("URL list
\* is empty") whatever the seed, and the invocation returns 1 without a
\* network request and without a file written.
C5_EmptyListFailsEarly ==
    (run > 0 /\ args.urls = << >> /\ pc # "Selecting")
        => /\ pc = "Failed"
           /\ exc = [cls |-> "ValueError", msg |-> "URL list is empty"]
           /\ ret = 1
           /\ stderr = << <<"Scrape failed: ", "URL list is empty">> >>
           /\ stdout = << >>
           /\ url = << >>
           /\ calls = [pick |-> 1, request |-> 0, write |-> 0]
           /\ resp = NoResp
           /\ fs = fs0

C5_Witness ==
    /\ args.urls = << >>
    /\ args.seed = <<1>>
    /\ pc = "Failed"
    /\ ret = 1

StageOrder ==
    { <<"Idle", "Selecting">>,
      <<"Selecting", "Fetching">>, <<"Selecting", "Failed">>, <<"Selecting", "Crashed">>,
      <<"Fetching", "Persisting">>, <<"Fetching", "Failed">>, <<"Fetching", "Crashed">>,
      <<"Persisting", "Done">>, <<"Persisting", "Failed">>, <<"Persisting", "Crashed">> }

C7_NeverOverwritten ==
    [][ \A p \in DOMAIN written :
            /\ p \in DOMAIN written'
            /\ written'[p] = written[p]
            /\ fs'[p] = fs[p] ]_vars

\* C7 amended: files are never removed, and a write replaces the file of an
\* earlier invocation only when it happens in the same second of the clock
\* into the same directory with a URL that has the same safe name (the same
\* URL, or another one such as http://a/b and http://a_b); any other write
\* creates a new file and leaves every earlier file as it was.
C7_OverwriteOnlySameSecondSameName ==
    [][ \A p \in DOMAIN written :
            /\ p \in DOMAIN written' /\ p \in DOMAIN fs'
            /\ (written'[p] # written[p] \/ fs'[p] # fs[p])
                  => /\ pc = "Persisting"
                     /\ written'[p].run = run /\ written[p].run < run
                     /\ SecondOf(written'[p].tick) = SecondOf(written[p].tick)
                     /\ p.dir = args.output_dir
                     /\ \/ written'[p].url = written[p].url
                        \/ SafeName(written'[p].url) = SafeName(written[p].url) ]_vars

\* the second invocation has replaced the file the first one wrote, with
\* other contents
C7_Witness ==
    /\ run = 2
    /\ pc = "Done"
    /\ url = UrlB
    /\ path \in DOMAIN fs0
    /\ fs[path] # fs0[path]

\* C8: whenever main returns 0, the chosen URL is one of the candidates,
\* exactly one file was written, under the output directory, its contents
\* read back as UTF-8 are exactly the text fetch_html returned, its name is
\* derived from the chosen URL, and standard output reports that URL and
\* that file's path.
C8_SuccessWritesFetchedText ==
    ret = 0
        => /\ pc = "Done"
           /\ exc = NoExc /\ stderr = << >>
           /\ url \in Range(args.urls)
           /\ calls = [pick |-> 1, request |-> 1, write |-> 1]
           /\ Is2xx(resp.status)
           /\ html = Decode(resp.body, detect_encoding(resp.charset)).text
           /\ Touched \subseteq {path}
           /\ path \in DOMAIN fs
           /\ path.dir = args.output_dir
           /\ Utf8Decode(fs[path]) = html
           /\ written[path].url = url /\ written[path].run = run
           /\ path.name = <<"s","c","r","a","p","e","_">> \o Strftime(clock) \o <<"_">>
                             \o SafeName(url) \o <<".","h","t","m","l">>
           /\ stdout = << <<"Scraped ", url>>, <<"HTML saved to ", path>> >>

\* a successful run whose body held an invalid byte: the file holds the
\* replacement character's three bytes instead
C8_Witness ==
    /\ ret = 0
    /\ resp.charset = NoCharset
    /\ resp.body = <<65, 255>>
    /\ html = <<65, ReplacementChar>>
    /\ fs[path] = <<65, 239, 191, 189>>

\* the sanitised URL, position by position: "_" where "://" starts, nothing
\* for the two characters after it, "_" for any other "/", and every other
\* character kept
RECURSIVE SanitizedFrom(_, _)
SanitizedFrom(u, i) ==
    IF i > Len(u) THEN << >>
    ELSE LET at(j) == j >= 1 /\ j + 2 <= Len(u)
                        /\ u[j] = ":" /\ u[j + 1] = "/" /\ u[j + 2] = "/"
         IN  (IF at(i) THEN <<"_">>
              ELSE IF at(i - 1) \/ at(i - 2) THEN << >>
              ELSE IF u[i] = "/" THEN <<"_">>
              ELSE << u[i] >>) \o SanitizedFrom(u, i + 1)

Sanitized(u) == SanitizedFrom(u, 1)

\* C9: the filename write_html builds is "scrape_" + timestamp + "_" +
\* sanitized + ".html", sanitized being the URL with every "://" and then
\* every remaining "/" replaced by "_"; the filename holds no "/", so the
\* file is created directly inside the output directory; and
\* https://a.com/b/c gives https_a.com_b_c.
C9_FilenameShape ==
    \A p \in DOMAIN written :
        /\ p.name = <<"s","c","r","a","p","e","_">> \o Strftime(written[p].tick)
                        \o <<"_">> \o Sanitized(written[p].url) \o <<".","h","t","m","l">>
        /\ \A i \in 1..Len(p.name) : p.name[i] # "/"
        /\ p.dir = args.output_dir
        /\ p \in DOMAIN fs
        /\ written[p].url = ExampleUrl
              => SubSeq(p.name, 24, Len(p.name) - 5)
                    = <<"h","t","t","p","s","_","a",".","c","o","m","_","b","_","c">>

\* the file of the example URL has been written into a directory that
\* write_html had to create
C9_Witness ==
    /\ pc = "Done"
    /\ url = ExampleUrl
    /\ args.output_dir # DefaultOutputDir
    /\ path \in DOMAIN written

\* C10: two pick_url calls with the same non-empty list and the same
\* integer seed return the same URL, in whichever invocations they are
\* made, and the call leaves the candidate list as it was.
C10_PickDeterministic ==
    [][ pc = "Selecting"
          => /\ args' = args
             /\ \A a \in picks', b \in picks' :
                  (a.urls = b.urls /\ a.seed = b.seed /\ a.seed # NoSeed)
                      => a.url = b.url
             /\ \A a \in picks' : a.url \in Range(a.urls) ]_vars

\* two invocations have picked from the same two-element list with the same
\* integer seed
C10_Witness ==
    \E a \in picks, b \in picks :
        /\ a.run # b.run
        /\ a.urls = b.urls /\ Len(a.urls) = 2
        /\ a.seed = b.seed /\ a.seed # NoSeed

=============================================================================
